---- MODULE Spec2Model ----
(***************************************************************************)
(* FabMo engine: the boot sequence of Engine.start (engine.js, kept in     *)
(* src/routes/dashboard.js from line 27 on), modelled as a state machine.  *)
(*                                                                         *)
(* One JavaScript turn runs to completion: while `now` holds a             *)
(* continuation (a stage about to run, or a stage's callback about to be   *)
(* delivered to async.series) no collaborator can call back.  A            *)
(* collaborator call is an entry of `pending`; its callback is an action   *)
(* of its own that fires when the turn is over.                            *)
(***************************************************************************)
EXTENDS Integers, Sequences, FiniteSets

\* ------------------------------------------------------------------ bounds
MaxLen == 2        \* longest persisted version token
RandSteps == 2     \* sampled values of Math.random(): k / RandSteps
MaxFiles == 2      \* most /dev/cu.usbmodem* files glob reports
MaxSecrets == 2    \* distinct values crypto.randomBytes can deliver
MaxSegments == 3   \* most segments of a request URL
MaxJobs == 2       \* most machine.add_job calls in flight or succeeded
MaxSetTimeCalls == 3 \* most calls of Engine.setTime
MaxRewrites == 2    \* most rewrite redirects a client follows in a row

\* --------------------------------------------------------- program constants
RandomLow == 10000
RandomHigh == 99999
SecretLen == 512
RandomBytes == 256
DarwinPort == 9876

\* ----------------------------------------------------------------- strings
\* A JavaScript string is a sequence of one-character strings; a value that
\* may be undefined is a record [def, s].
Alphabet == {" ", "a"}

Strings(n) == UNION {[1..k -> Alphabet] : k \in 0..n}

Undefined == [def |-> FALSE, s |-> <<>>]

Str(s) == [def |-> TRUE, s |-> s]

Values(n) == {Undefined} \cup {Str(s) : s \in Strings(n)}

\* x || ''  (undefined and the empty string are both falsy)
OrEmpty(v) == IF v.def THEN v.s ELSE <<>>

\* a truthy string value
Truthy(v) == v.def /\ v.s # <<>>

RECURSIVE TrimLeft(_)
TrimLeft(s) == IF s = <<>> THEN s
               ELSE IF Head(s) = " " THEN TrimLeft(Tail(s)) ELSE s

RECURSIVE TrimRight(_)
TrimRight(s) == IF s = <<>> THEN s
                ELSE IF s[Len(s)] = " " THEN TrimRight(SubSeq(s, 1, Len(s) - 1)) ELSE s

\* String.prototype.trim
Trim(s) == TrimRight(TrimLeft(s))

DigitChars == <<"0", "1", "2", "3", "4", "5", "6", "7", "8", "9">>

\* Number.prototype.toString for a non-negative integer
RECURSIVE NumberToString(_)
NumberToString(n) == IF n < 10 THEN <<DigitChars[n + 1]>>
                     ELSE Append(NumberToString(n \div 10), DigitChars[(n % 10) + 1])

\* Math.floor(Math.random() * (99999 - 10000)) for the sampled values of
\* Math.random() in [0, 1): k / RandSteps, and the largest double below 1.
RandomFloors == {(k * (RandomHigh - RandomLow)) \div RandSteps : k \in 0..(RandSteps - 1)}
                \cup {(RandomHigh - RandomLow) - 1}

DebugRandomOffByOne(f) == f + RandomLow + 1

\* var random = Math.floor(Math.random() * (99999 - 10000)) + 10000
DebugRandom(f) == f + RandomLow

\* ------------------------------------------------------------------ stages
NoErr == "null"
Errors == {"err"}

Stages == << "setup_application", "load_engine_config", "check_engine_config",
             "load_profiles", "load_users", "profile_shim", "get_fabmo_version",
             "clear_approot", "create_data_directories", "apply_engine_config",
             "setup_database", "clean_database", "connect",
             "launch_detection_daemon", "load_machine_config", "set_units",
             "load_driver_config", "get_g2_version", "g2_shim",
             "load_opensbp_commands", "load_opensbp_config",
             "apply_machine_config", "configure_dashboard", "load_apps",
             "load_macros", "load_instance_config", "apply_instance_config",
             "generate_auth_key", "start_server" >>

NStages == Len(Stages)

StageNames == {Stages[i] : i \in 1..NStages}

StageIndex(s) == CHOOSE i \in 1..NStages : Stages[i] = s

\* The stages whose body is guarded by this.machine.isConnected()
GatedStages == {"set_units", "load_driver_config", "get_g2_version",
                "load_opensbp_commands", "load_opensbp_config",
                "load_instance_config", "apply_instance_config"}

\* Collaborator calls that take the hardware handle or configure the driver
HardwareCallees == {"driver.setUnits", "configureDriver", "configureDriver(null)",
                    "driver.get", "sbp_runtime.loadCommands", "configureOpenSBP",
                    "configureInstance", "instance.apply"}

\* Stages that hand async.series' callback itself to the collaborator:
\* whatever error the collaborator reports reaches the sequencer.
DirectCalls ==
  { [stage |-> "setup_application",       callee |-> "createDataDirectories"],
    [stage |-> "load_engine_config",      callee |-> "configureEngine"],
    [stage |-> "profile_shim",            callee |-> "engine.set(profile)"],
    [stage |-> "create_data_directories", callee |-> "createDataDirectories"],
    [stage |-> "apply_engine_config",     callee |-> "engine.apply"],
    [stage |-> "setup_database",          callee |-> "configureDB"],
    [stage |-> "clean_database",          callee |-> "db.cleanup"],
    [stage |-> "set_units",               callee |-> "driver.setUnits"],
    [stage |-> "load_opensbp_commands",   callee |-> "sbp_runtime.loadCommands"],
    [stage |-> "load_opensbp_config",     callee |-> "configureOpenSBP"],
    [stage |-> "apply_machine_config",    callee |-> "machine.apply"],
    [stage |-> "configure_dashboard",     callee |-> "dashboard.configure"],
    [stage |-> "load_macros",             callee |-> "macros.load"],
    [stage |-> "load_instance_config",    callee |-> "configureInstance"],
    [stage |-> "apply_instance_config",   callee |-> "instance.apply"] }

VARIABLES
  argv_debug,        \* argv.debug: "absent", "true" (--debug) or "slow" (--debug=slow)
  platform,          \* process.platform
  engine_cfg,        \* config.engine: init, version, profile, ports, server_port
  secret_file,       \* <data dir>/config/auth_secret on disk
  version,           \* Engine.version
  firmware,          \* Engine.firmware
  machine_set,       \* this.machine has been assigned
  connected,         \* what machine.isConnected() returns
  auth_secret,       \* Engine.auth_secret
  server,            \* Engine.server: "none", "created", "listening"
  completed,         \* async.series: number of tasks whose callback advanced it
  now,               \* the continuation of the running turn
  pending,           \* collaborator calls in flight
  cbCount,           \* per stage: how often its series callback was invoked
  started,           \* the stages async.series has invoked, in order
  final_calls,       \* the argument lists the caller's callback was invoked with
  final_spent,       \* the series' final callback has been replaced after an error
  failed_stage,      \* the stage whose callback carried the reported error
  crashed,           \* an exception nobody catches: "no" or its message
  random,            \* clear_approot: var random
  this_time_version, \* clear_approot: var this_time_version
  ncalls,            \* per collaborator: number of calls issued
  version_writes,    \* the values config.engine.set('version', v) was given
  secret_read_failed, \* generate_auth_key: some fs.readFile callback got an err
  secret_writing,    \* generate_auth_key: the data of the fs.writeFile calls in flight
  gated_calls,       \* calls issued by a gated stage after isConnected() was false
  req,               \* the HTTP request the server is handling
  res,               \* the responses sent for it
  dashboard_machine, \* Dashboard: this.machine
  dashboard_ui,      \* Dashboard: this.ui
  main_class,        \* #main has the class offcanvas-overlap-left
  launched,          \* the apps context.launchApp was called with
  add_job_calls,     \* the payloads of the machine.add_job calls in flight
  posted,            \* the postMessage calls of the listener's last run
  event,             \* the message event the listener handled last
  page_thrown,       \* what the last handler of the page threw: "no" or the error
  time_synced,       \* Engine.time_synced
  shell_cmds,        \* the commands util.doshell was given
  setTime_calls      \* how often Engine.setTime has been called

vars == << argv_debug, platform, engine_cfg, secret_file, version, firmware,
           machine_set, connected, auth_secret, server, completed, now, pending,
           cbCount, started, final_calls, final_spent, failed_stage, crashed,
           random, this_time_version, ncalls, version_writes, gated_calls,
           secret_read_failed, secret_writing, req, res,
           dashboard_machine, dashboard_ui, main_class, launched, add_job_calls,
           posted, event, page_thrown, time_synced, shell_cmds, setTime_calls >>

\* groups of variables, for UNCHANGED
process_env == << argv_debug, platform >>
engine_fields == << version, firmware, machine_set, auth_secret, server >>
series_state == << completed, cbCount, started, final_calls, final_spent,
                   failed_stage, crashed >>
http == << req, res >>
relay == << dashboard_machine, dashboard_ui, main_class, launched, add_job_calls,
           posted, event, page_thrown >>
clock == << time_synced, shell_cmds, setTime_calls >>
secret_io == << secret_read_failed, secret_writing >>
closure_vars == << random, this_time_version, secret_io >>

Callees == {c.callee : c \in DirectCalls} \cup HardwareCallees \cup
           { "engine.update", "glob", "profiles.load", "configureUser",
             "readFile(.default)", "doshell(git)", "readFile(version.json)",
             "clearAppRoot", "machine.connect", "detection_daemon",
             "configureMachine", "driver.deleteMany", "driver.restore",
             "loadApps", "readFile(auth_secret)", "writeFile(auth_secret)",
             "server.listen", "authentication.configure" }

\* `now`: nothing, a stage about to run, or a stage's callback about to be
\* delivered with err; callee and reply tell which collaborator's callback
\* invoked it, and with what that collaborator answered ("" when the stage
\* invoked its callback itself).
Idle == [k |-> "idle", stage |-> "", err |-> NoErr, callee |-> "", reply |-> NoErr]

RunToken(s) == [k |-> "run", stage |-> s, err |-> NoErr, callee |-> "", reply |-> NoErr]

CbToken(s, e, c, r) == [k |-> "cb", stage |-> s, err |-> e, callee |-> c, reply |-> r]

\* ------------------------------------------------------------ turn helpers
Running(s) == crashed = "no" /\ now = RunToken(s)

InFlight(s, c) == crashed = "no" /\ now = Idle /\ [stage |-> s, callee |-> c] \in pending

\* the stage's body invokes its callback with e
Invoke(s, e) == now' = CbToken(s, e, "", NoErr)

\* the callback of collaborator c, answered with r, invokes the stage's
\* callback with e
Reply(s, c, r, e) == now' = CbToken(s, e, c, r)

Outcomes == {NoErr} \cup Errors

Issue(s, c) == /\ pending' = pending \cup {[stage |-> s, callee |-> c]}
               /\ ncalls' = [ncalls EXCEPT ![c] = @ + 1]

Answered(s, c) == /\ pending' = pending \ {[stage |-> s, callee |-> c]}
                  /\ UNCHANGED ncalls

NoCall == UNCHANGED << pending, ncalls >>

\* ------------------------------------------------------------ async.series
FinalArgsWithStage(e) == IF e # NoErr THEN << e, now.stage >> ELSE << NoErr, "engine" >>

\* The final function of Engine.start: callback(err) or callback(null, this)
FinalArgs(e) == IF e # NoErr THEN << e >> ELSE << NoErr, "engine" >>

\* Engine.start(callback): async.series invokes the first task at once.
Start ==
  /\ crashed = "no" /\ now = Idle /\ started = << >>
  /\ started' = << Stages[1] >>
  /\ now' = RunToken(Stages[1])
  /\ UNCHANGED << clock, relay, http, process_env, engine_cfg, secret_file, engine_fields, connected,
                  completed, pending, cbCount, final_calls, final_spent,
                  failed_stage, crashed, closure_vars, ncalls, version_writes,
                  gated_calls >>

\* A task's callback is delivered a second time and async.series guards its
\* iteratee callback (async >= 1.0, onlyOnce): it throws, and nobody catches.
SeriesCallbackAgainThrows ==
  /\ crashed = "no" /\ now.k = "cb"
  /\ cbCount[now.stage] >= 1
  /\ crashed' = "Callback was already called."
  /\ cbCount' = [cbCount EXCEPT ![now.stage] = @ + 1]
  /\ now' = Idle
  /\ UNCHANGED << clock, relay, http, process_env, engine_cfg, secret_file, engine_fields, connected,
                  completed, pending, started, final_calls, final_spent,
                  failed_stage, closure_vars, ncalls, version_writes, gated_calls >>

\* whether async.series goes on to the next task after a callback with e
SeriesAdvance(e) == e = NoErr

\* A task's callback is delivered to async.series.  An error goes to the final
\* function, which is then spent; otherwise the count of completed tasks goes
\* up and the task at that index is invoked, or the final function when the
\* count has reached the end of the list.  (A repeated delivery takes this
\* path when the iteratee callback is unguarded, async < 1.0.)
SeriesCallback ==
  /\ crashed = "no" /\ now.k = "cb"
  /\ cbCount' = [cbCount EXCEPT ![now.stage] = @ + 1]
  /\ IF ~SeriesAdvance(now.err)
       THEN /\ final_calls' = IF final_spent THEN final_calls
                              ELSE Append(final_calls, FinalArgs(now.err))
            /\ failed_stage' = IF final_spent THEN failed_stage ELSE now.stage
            /\ final_spent' = TRUE
            /\ now' = Idle
            /\ UNCHANGED << completed, started >>
       ELSE /\ completed' = completed + 1
            /\ IF completed + 1 >= NStages
                 THEN /\ final_calls' = IF final_spent THEN final_calls
                                        ELSE Append(final_calls, FinalArgs(NoErr))
                      /\ now' = Idle
                      /\ UNCHANGED started
                 ELSE /\ started' = Append(started, Stages[completed + 2])
                      /\ now' = RunToken(Stages[completed + 2])
                      /\ UNCHANGED final_calls
            /\ UNCHANGED << final_spent, failed_stage >>
  /\ UNCHANGED << clock, relay, http, process_env, engine_cfg, secret_file, engine_fields, connected,
                  pending, crashed, closure_vars, ncalls, version_writes,
                  gated_calls >>

\* A collaborator that was handed the series callback itself calls it, with
\* or without an error.
collaborator_calls_back ==
  \E c \in pending \cap DirectCalls : \E e \in Outcomes :
    /\ InFlight(c.stage, c.callee)
    /\ Answered(c.stage, c.callee)
    /\ Reply(c.stage, c.callee, e, e)
    /\ UNCHANGED << clock, relay, http, process_env, engine_cfg, secret_file, engine_fields, connected,
                    series_state, closure_vars, version_writes, gated_calls >>

\* the frame of a stage that only issues a call or invokes its callback
StageFrame == UNCHANGED << clock, relay, http, process_env, engine_cfg, secret_file, engine_fields,
                           connected, series_state, closure_vars, version_writes,
                           gated_calls >>

\* function(callback) { collaborator(callback); }
PassThrough(s, c) == /\ Running(s)
                     /\ Issue(s, c)
                     /\ now' = Idle
                     /\ StageFrame

\* ------------------------------------------------------------------ stages
setup_application == PassThrough("setup_application", "createDataDirectories")

load_engine_config == PassThrough("load_engine_config", "configureEngine")

\* config.engine.set(key, value) / update(map): the cache holds the value as
\* soon as the call is made
EngineSet(cfg, key, value) == [cfg EXCEPT ![key] = value]

FirstTimeAlways(cfg) == TRUE

\* if(!config.engine.get('init'))
FirstTime(cfg) == ~cfg.init

\* check_engine_config: first-time configuration if 'init' is not set.
\* EngineConfigFirstTime switches on the platform.
check_engine_config ==
  /\ Running("check_engine_config")
  /\ IF FirstTime(engine_cfg)
       THEN CASE platform = "linux" ->
                   /\ engine_cfg' = EngineSet(engine_cfg, "ports", "linux")
                   /\ Issue("check_engine_config", "engine.update")
                   /\ now' = Idle
              [] platform = "darwin" ->
                   /\ engine_cfg' = EngineSet(engine_cfg, "server_port", DarwinPort)
                   /\ Issue("check_engine_config", "glob")
                   /\ now' = Idle
              [] OTHER ->
                   \* default: callback() -> set('init', true); callback()
                   /\ engine_cfg' = EngineSet(engine_cfg, "init", TRUE)
                   /\ NoCall
                   /\ Invoke("check_engine_config", NoErr)
       ELSE /\ Invoke("check_engine_config", NoErr)
            /\ NoCall
            /\ UNCHANGED engine_cfg
  /\ UNCHANGED << clock, relay, http, process_env, secret_file, engine_fields, connected, series_state,
                  closure_vars, version_writes, gated_calls >>

\* glob.glob('/dev/cu.usbmodem*', function(err, files) {...}) with n files
EngineConfigFirstTime_globbed ==
  \E n \in 0..MaxFiles :
    /\ InFlight("check_engine_config", "glob")
    /\ IF n >= 1
         THEN /\ engine_cfg' = EngineSet(engine_cfg, "ports",
                                         IF n >= 2 THEN "osx2" ELSE "osx1")
              /\ pending' = (pending \ {[stage |-> "check_engine_config", callee |-> "glob"]})
                            \cup {[stage |-> "check_engine_config", callee |-> "engine.update"]}
              /\ ncalls' = [ncalls EXCEPT !["engine.update"] = @ + 1]
              /\ now' = Idle
         ELSE /\ engine_cfg' = EngineSet(engine_cfg, "init", TRUE)
              /\ Answered("check_engine_config", "glob")
              /\ Reply("check_engine_config", "glob", NoErr, NoErr)
    /\ UNCHANGED << clock, relay, http, process_env, secret_file, engine_fields, connected, series_state,
                    closure_vars, version_writes, gated_calls >>

\* config.engine.update(ports, function() { callback(); }) has called back:
\* config.engine.set('init', true); callback()
EngineConfigFirstTime_updated ==
  \E r \in Outcomes :
  /\ InFlight("check_engine_config", "engine.update")
  /\ Answered("check_engine_config", "engine.update")
  /\ engine_cfg' = EngineSet(engine_cfg, "init", TRUE)
  /\ Reply("check_engine_config", "engine.update", r, NoErr)
  /\ UNCHANGED << clock, relay, http, process_env, secret_file, engine_fields, connected, series_state,
                  closure_vars, version_writes, gated_calls >>

load_profiles == PassThrough("load_profiles", "profiles.load")

\* function(err, profiles) { if(err) {log.error(err);} callback() }
load_profiles_loaded ==
  \E r \in Outcomes :
  /\ InFlight("load_profiles", "profiles.load")
  /\ Answered("load_profiles", "profiles.load")
  /\ Reply("load_profiles", "profiles.load", r, NoErr)
  /\ StageFrame

load_users == PassThrough("load_users", "configureUser")

\* function(){ callback(); }
load_users_loaded ==
  \E r \in Outcomes :
  /\ InFlight("load_users", "configureUser")
  /\ Answered("load_users", "configureUser")
  /\ Reply("load_users", "configureUser", r, NoErr)
  /\ StageFrame

DefaultProfile == << "D", "e", "f", "a", "u", "l", "t" >>

\* the contents fs.readFile('../site/.default') can deliver
DefaultFileContents == { << >>, << "a" >> }

profile_shim ==
  /\ Running("profile_shim")
  /\ IF Truthy(engine_cfg.profile)
       THEN Invoke("profile_shim", NoErr) /\ NoCall
       ELSE Issue("profile_shim", "readFile(.default)") /\ now' = Idle
  /\ StageFrame

\* def = err ? 'Default' : content; config.engine.set('profile', def, callback)
ProfileFromFile(err, content) == IF err # NoErr THEN DefaultProfile ELSE content

profile_shim_read ==
  \E e \in Outcomes : \E content \in DefaultFileContents :
    /\ InFlight("profile_shim", "readFile(.default)")
    /\ engine_cfg' = EngineSet(engine_cfg, "profile", Str(ProfileFromFile(e, content)))
    /\ pending' = (pending \ {[stage |-> "profile_shim", callee |-> "readFile(.default)"]})
                  \cup {[stage |-> "profile_shim", callee |-> "engine.set(profile)"]}
    /\ ncalls' = [ncalls EXCEPT !["engine.set(profile)"] = @ + 1]
    /\ now' = Idle
    /\ UNCHANGED << clock, relay, http, process_env, secret_file, engine_fields, connected, series_state,
                    closure_vars, version_writes, gated_calls >>

\* what `git rev-parse --verify HEAD` can print (undefined: the shell failed)
GitOutputs == { Undefined, Str(<< " " >>), Str(<< "a", " " >>) }

\* the "number" of version.json
JsonNumbers == { Undefined, Str(<< " " >>), Str(<< " ", "a" >>) }

\* get_fabmo_version -> Engine.getVersion: util.doshell('git rev-parse ...')
get_fabmo_version == PassThrough("get_fabmo_version", "doshell(git)")

\* getVersion, the shell's callback: this.version.hash = (data || "").trim()
getVersion_hashed ==
  \E data \in GitOutputs :
    /\ InFlight("get_fabmo_version", "doshell(git)")
    /\ version' = [set |-> TRUE, hash |-> Trim(OrEmpty(data)), number |-> << >>,
                   debug |-> (argv_debug # "absent")]
    /\ pending' = (pending \ {[stage |-> "get_fabmo_version", callee |-> "doshell(git)"]})
                  \cup {[stage |-> "get_fabmo_version", callee |-> "readFile(version.json)"]}
    /\ ncalls' = [ncalls EXCEPT !["readFile(version.json)"] = @ + 1]
    /\ now' = Idle
    /\ UNCHANGED << clock, relay, http, process_env, engine_cfg, secret_file, firmware, machine_set,
                    auth_secret, server, connected, series_state, closure_vars,
                    version_writes, gated_calls >>

\* getVersion, version.json read: an error, text that does not parse, or an
\* object whose number may be missing or empty (version.type is not
\* modelled); then get_fabmo_version's callback: this.version = data;
\* callback()
getVersion_read ==
  \E outcome \in {"error", "unparsable", "parsed"} : \E number \in JsonNumbers :
    /\ InFlight("get_fabmo_version", "readFile(version.json)")
    /\ Answered("get_fabmo_version", "readFile(version.json)")
    /\ version' = IF outcome = "parsed" /\ Truthy(number)
                     THEN [version EXCEPT !.number = number.s]
                     ELSE version
    /\ Reply("get_fabmo_version", "readFile(version.json)",
             IF outcome = "error" THEN "err" ELSE NoErr, NoErr)
    /\ UNCHANGED << clock, relay, http, process_env, engine_cfg, secret_file, firmware, machine_set,
                    auth_secret, server, connected, series_state, closure_vars,
                    version_writes, gated_calls >>

\* (this.version.hash || this.version.number || "").trim()
Identity(v) == Trim(IF v.hash # << >> THEN v.hash
                    ELSE IF v.number # << >> THEN v.number ELSE << >>)

\* (config.engine.get('version') || '').trim()
LastTimeVersion(cfg) == Trim(OrEmpty(cfg.version))

VersionChangedUntrimmed(cfg, v) == OrEmpty(cfg.version) # Identity(v)

\* last_time_version != this_time_version
VersionChanged(cfg, v) == LastTimeVersion(cfg) # Identity(v)

clear_approot ==
  /\ Running("clear_approot")
  /\ IF argv_debug # "absent"
       THEN \E f \in RandomFloors :
              /\ random' = DebugRandom(f)
              /\ engine_cfg' = EngineSet(engine_cfg, "version", Str(NumberToString(random')))
              /\ version_writes' = Append(version_writes, Str(NumberToString(random')))
              /\ Issue("clear_approot", "clearAppRoot")
              /\ now' = Idle
              /\ UNCHANGED this_time_version
       ELSE /\ this_time_version' = Identity(version)
            /\ IF VersionChanged(engine_cfg, version)
                 THEN Issue("clear_approot", "clearAppRoot") /\ now' = Idle
                 ELSE Invoke("clear_approot", NoErr) /\ NoCall
            /\ UNCHANGED << random, engine_cfg, version_writes >>
  /\ UNCHANGED << clock, relay, http, process_env, secret_file, engine_fields, connected, series_state,
                  gated_calls, secret_io >>

ClearedResultPropagated(r) == r

\* config.clearAppRoot(function(err, stdout) { if(err) { log.error(err); } ... callback(); })
ClearedResult(r) == NoErr

SecondWriteFresh(r) == Str(NumberToString(r + 1))

\* the value of the second config.engine.set('version', random.toString())
SecondWrite(r) == Str(NumberToString(r))

\* config.clearAppRoot's callback (with or without an error): in debug mode
\* the version is set a second time; otherwise it is set to this_time_version
clear_approot_cleared ==
  \E r \in Outcomes :
  /\ InFlight("clear_approot", "clearAppRoot")
  /\ Answered("clear_approot", "clearAppRoot")
  /\ LET v == IF argv_debug # "absent" THEN SecondWrite(random)
              ELSE Str(this_time_version)
     IN /\ engine_cfg' = EngineSet(engine_cfg, "version", v)
        /\ version_writes' = Append(version_writes, v)
  /\ Reply("clear_approot", "clearAppRoot", r, ClearedResult(r))
  /\ UNCHANGED << clock, relay, http, process_env, secret_file, engine_fields, connected, series_state,
                  closure_vars, gated_calls >>

create_data_directories == PassThrough("create_data_directories", "createDataDirectories")

apply_engine_config == PassThrough("apply_engine_config", "engine.apply")

setup_database == PassThrough("setup_database", "configureDB")

clean_database == PassThrough("clean_database", "db.cleanup")

connect == PassThrough("connect", "machine.connect")

ConnectResultPropagated(e) == e

\* machine.connect(function(err, machine) { if(err) {log.error...} callback(null); })
ConnectResult(e) == NoErr

\* machine.connect has called back, with or without an error; the machine is
\* connected only if there was none.
connect_connected ==
  \E e \in Outcomes : \E up \in BOOLEAN :
    /\ InFlight("connect", "machine.connect")
    /\ Answered("connect", "machine.connect")
    /\ connected' = (e = NoErr /\ up)
    /\ Reply("connect", "machine.connect", e, ConnectResult(e))
    /\ UNCHANGED << clock, relay, http, process_env, engine_cfg, secret_file, engine_fields, series_state,
                    closure_vars, version_writes, gated_calls >>

launch_detection_daemon ==
  /\ Running("launch_detection_daemon")
  /\ ncalls' = [ncalls EXCEPT !["detection_daemon"] = @ + 1]
  /\ Invoke("launch_detection_daemon", NoErr)
  /\ UNCHANGED pending
  /\ StageFrame

load_machine_config ==
  /\ Running("load_machine_config")
  /\ machine_set' = TRUE
  /\ Issue("load_machine_config", "configureMachine")
  /\ now' = Idle
  /\ UNCHANGED << clock, relay, http, process_env, engine_cfg, secret_file, version, firmware, auth_secret,
                  server, connected, series_state, closure_vars, version_writes,
                  gated_calls >>

\* function(err, result) { if(err) { log.warn(err); } callback(null); }
load_machine_config_loaded ==
  \E r \in Outcomes :
  /\ InFlight("load_machine_config", "configureMachine")
  /\ Answered("load_machine_config", "configureMachine")
  /\ Reply("load_machine_config", "configureMachine", r, NoErr)
  /\ StageFrame

\* if(this.machine.isConnected()) { collaborator(...) } else { callback(null) }
Gated(s, c) ==
  /\ Running(s)
  /\ IF connected
       THEN Issue(s, c) /\ now' = Idle
       ELSE Invoke(s, NoErr) /\ NoCall
  /\ StageFrame

set_units == Gated("set_units", "driver.setUnits")

\* Connected: config.configureDriver(machine.machine.driver, ...).  Not
\* connected: config.configureDriver(null, function() { callback(null) })
\* and, right after the call, callback(null).
load_driver_config ==
  /\ Running("load_driver_config")
  /\ IF connected
       THEN /\ Issue("load_driver_config", "configureDriver")
            /\ now' = Idle
            /\ UNCHANGED gated_calls
       ELSE /\ Issue("load_driver_config", "configureDriver(null)")
            /\ gated_calls' = gated_calls \cup {"configureDriver(null)"}
            /\ Invoke("load_driver_config", NoErr)
  /\ UNCHANGED << clock, relay, http, process_env, engine_cfg, secret_file, engine_fields, connected,
                  series_state, closure_vars, version_writes >>

DriverConfigResultPropagated(r) == r

\* function(err, data) { if(err) { log.error(...) } callback(null); }
DriverConfigResult(r) == NoErr

load_driver_config_configured ==
  \E r \in Outcomes :
  /\ InFlight("load_driver_config", "configureDriver")
  /\ Answered("load_driver_config", "configureDriver")
  /\ Reply("load_driver_config", "configureDriver", r, DriverConfigResult(r))
  /\ StageFrame

\* function(err, data) { callback(null); }: the callback of the call made
\* without a connection
load_driver_config_null_configured ==
  \E r \in Outcomes :
  /\ InFlight("load_driver_config", "configureDriver(null)")
  /\ Answered("load_driver_config", "configureDriver(null)")
  /\ Reply("load_driver_config", "configureDriver(null)", r, NoErr)
  /\ StageFrame

get_g2_version == Gated("get_g2_version", "driver.get")

NoFirmware == [build |-> "null", config |-> "null", version |-> "null"]

FirmwareReplyBuildOnly(e, fw) ==
  IF e # NoErr THEN fw ELSE [fw EXCEPT !.build = "fb"]

\* this.firmware after driver.get(['fb','fbs','fbc'], ...) answered
FirmwareReply(e, fw) ==
  IF e # NoErr THEN fw
  ELSE [build |-> "fb", version |-> "fbs", config |-> "fbc"]

FirmwareResultPropagated(e) == e

\* if(err) { log.error(...) } else {...} callback(null);
FirmwareResult(e) == NoErr

get_g2_version_got ==
  \E e \in Outcomes :
    /\ InFlight("get_g2_version", "driver.get")
    /\ Answered("get_g2_version", "driver.get")
    /\ firmware' = FirmwareReply(e, firmware)
    /\ Reply("get_g2_version", "driver.get", e, FirmwareResult(e))
    /\ UNCHANGED << clock, relay, http, process_env, engine_cfg, secret_file, version, machine_set,
                    auth_secret, server, connected, series_state, closure_vars,
                    version_writes, gated_calls >>

\* do_shim: whether config.driver has one of the obsolete entries
g2_shim ==
  \E do_shim \in BOOLEAN :
    /\ Running("g2_shim")
    /\ IF do_shim
         THEN Issue("g2_shim", "driver.deleteMany") /\ now' = Idle
         ELSE Invoke("g2_shim", NoErr) /\ NoCall
    /\ StageFrame

\* function(err, data) { config.driver.restore(function() { callback(); }); }
g2_shim_deleted ==
  /\ InFlight("g2_shim", "driver.deleteMany")
  /\ pending' = (pending \ {[stage |-> "g2_shim", callee |-> "driver.deleteMany"]})
                \cup {[stage |-> "g2_shim", callee |-> "driver.restore"]}
  /\ ncalls' = [ncalls EXCEPT !["driver.restore"] = @ + 1]
  /\ now' = Idle
  /\ StageFrame

g2_shim_restored ==
  \E r \in Outcomes :
  /\ InFlight("g2_shim", "driver.restore")
  /\ Answered("g2_shim", "driver.restore")
  /\ Reply("g2_shim", "driver.restore", r, NoErr)
  /\ StageFrame

load_opensbp_commands == Gated("load_opensbp_commands", "sbp_runtime.loadCommands")

load_opensbp_config == Gated("load_opensbp_config", "configureOpenSBP")

apply_machine_config == PassThrough("apply_machine_config", "machine.apply")

configure_dashboard == PassThrough("configure_dashboard", "dashboard.configure")

load_apps == PassThrough("load_apps", "loadApps")

\* function(err, result) { callback(null, result); }
load_apps_loaded ==
  \E r \in Outcomes :
  /\ InFlight("load_apps", "loadApps")
  /\ Answered("load_apps", "loadApps")
  /\ Reply("load_apps", "loadApps", r, NoErr)
  /\ StageFrame

load_macros == PassThrough("load_macros", "macros.load")

load_instance_config == Gated("load_instance_config", "configureInstance")

apply_instance_config == Gated("apply_instance_config", "instance.apply")

NoSecret == [def |-> FALSE, len |-> 0, id |-> 0]

NoFile == [exists |-> FALSE, len |-> 0, id |-> 0]

\* the secret a file holds, as a value of auth_secret
FileSecret(file) == [def |-> TRUE, len |-> file.len, id |-> file.id]

SecretAcceptedAnyLength(e, file) == e = NoErr /\ file.exists /\ file.len > 0

SecretAcceptedIfShorter(e, file) == e = NoErr /\ file.exists /\ file.len > 0 /\ file.len < SecretLen

\* if(!err && data && (data.length == 512))
SecretAccepted(e, file) == e = NoErr /\ file.exists /\ file.len > 0 /\ file.len = SecretLen

\* crypto.randomBytes(256).toString('hex'): two hex digits per byte
NewSecret(id) == [def |-> TRUE, len |-> 2 * RandomBytes, id |-> id]

generate_auth_key == PassThrough("generate_auth_key", "readFile(auth_secret)")

\* fs.readFile's callback: the file's content is adopted, or a new secret is
\* generated and written.  A missing file is a read error.
generate_auth_key_read ==
  \E e \in Outcomes : \E id \in 1..MaxSecrets :
    /\ InFlight("generate_auth_key", "readFile(auth_secret)")
    /\ secret_file.exists \/ e # NoErr
    /\ IF SecretAccepted(e, secret_file)
         THEN /\ auth_secret' = [def |-> TRUE, len |-> secret_file.len,
                                 id |-> secret_file.id]
              /\ Answered("generate_auth_key", "readFile(auth_secret)")
              /\ Reply("generate_auth_key", "readFile(auth_secret)", e, NoErr)
              /\ UNCHANGED secret_writing
         ELSE /\ auth_secret' = NewSecret(id)
              /\ pending' = (pending \ {[stage |-> "generate_auth_key",
                                         callee |-> "readFile(auth_secret)"]})
                            \cup {[stage |-> "generate_auth_key",
                                   callee |-> "writeFile(auth_secret)"]}
              /\ ncalls' = [ncalls EXCEPT !["writeFile(auth_secret)"] = @ + 1]
              /\ secret_writing' = secret_writing \cup {NewSecret(id)}
              /\ now' = Idle
    /\ secret_read_failed' = (secret_read_failed \/ e # NoErr)
    /\ UNCHANGED << clock, relay, http, process_env, engine_cfg, secret_file, version, firmware,
                    machine_set, server, connected, series_state, random,
                    this_time_version, version_writes, gated_calls >>

WriteResultPropagated(r) == r

\* fs.writeFile(secret_file, this.auth_secret, function(err, data) { callback(); })
WriteResult(r) == NoErr

\* fs.writeFile's callback: function(err, data) { callback(); }
generate_auth_key_written ==
  \E ok \in BOOLEAN : \E data \in secret_writing :
    /\ InFlight("generate_auth_key", "writeFile(auth_secret)")
    /\ secret_writing' = secret_writing \ {data}
    /\ IF secret_writing' = {}
         THEN Answered("generate_auth_key", "writeFile(auth_secret)")
         ELSE NoCall
    /\ secret_file' = IF ok THEN [exists |-> TRUE, len |-> data.len, id |-> data.id]
                      ELSE secret_file
    /\ Reply("generate_auth_key", "writeFile(auth_secret)",
             IF ok THEN NoErr ELSE "err", WriteResult(IF ok THEN NoErr ELSE "err"))
    /\ UNCHANGED << clock, relay, http, process_env, engine_cfg, engine_fields, connected, series_state,
                    random, this_time_version, secret_read_failed, version_writes,
                    gated_calls >>

NoServer == [state |-> "none", cookieSecret |-> NoSecret, pre |-> << >>, use |-> << >>]

UseChainBodyParserFirst(debug) ==
  << "crossOrigin" >>
  \o (IF debug = "slow" THEN << "latency" >> ELSE << >>)
  \o (IF debug # "absent" THEN << "debug" >> ELSE << >>)
  \o << "bodyParser", "queryParser", "sessions", "passport.initialize",
        "passport.session", "gzipResponse" >>

\* the handlers start_server registers with server.use, in order
UseChain(debug) ==
  << "crossOrigin" >>
  \o (IF debug = "slow" THEN << "latency" >> ELSE << >>)
  \o (IF debug # "absent" THEN << "debug" >> ELSE << >>)
  \o << "queryParser", "bodyParser", "sessions", "passport.initialize",
        "passport.session", "gzipResponse" >>

\* the handlers start_server registers with server.pre
PreChain == << "sanitizePath" >>

\* start_server: the server is created and attached to the engine, the
\* handlers are registered, this.auth_secret.slice(0,5) is read (a TypeError
\* if there is no secret yet), and server.listen is called;
\* authentication.configure() follows the call.
start_server ==
  /\ Running("start_server")
  /\ IF ~auth_secret.def
       THEN /\ server' = [state |-> "created", cookieSecret |-> NoSecret,
                          pre |-> PreChain,
                          use |-> SubSeq(UseChain(argv_debug), 1,
                                         Len(UseChain(argv_debug)) - 4)]
            /\ crashed' = "TypeError"
            /\ now' = Idle
            /\ NoCall
       ELSE /\ server' = [state |-> "created", cookieSecret |-> auth_secret,
                          pre |-> PreChain, use |-> UseChain(argv_debug)]
            /\ pending' = pending \cup {[stage |-> "start_server", callee |-> "server.listen"]}
            /\ ncalls' = [ncalls EXCEPT !["server.listen"] = @ + 1,
                                        !["authentication.configure"] = @ + 1]
            /\ now' = Idle
            /\ UNCHANGED crashed
  /\ UNCHANGED << clock, relay, http, process_env, engine_cfg, secret_file, version, firmware,
                  machine_set, auth_secret, connected, completed, cbCount, started,
                  final_calls, final_spent, failed_stage, closure_vars,
                  version_writes, gated_calls >>

\* server.listen's callback: callback(null, server)
start_server_listening ==
  /\ InFlight("start_server", "server.listen")
  /\ Answered("start_server", "server.listen")
  /\ server' = [server EXCEPT !.state = "listening"]
  /\ Reply("start_server", "server.listen", NoErr, NoErr)
  /\ UNCHANGED << clock, relay, http, process_env, engine_cfg, secret_file, version, firmware,
                  machine_set, auth_secret, connected, series_state, closure_vars,
                  version_writes, gated_calls >>

\* ------------------------------------------------------------- the server
\* no request is being handled
NoRequest == [phase |-> "idle", url |-> << >>, matched |-> FALSE, ran |-> << >>,
              thrown |-> "", rewrites |-> 0]

\* the messages of the errors a route handler can throw
ErrMessages == {"boom"}

\* restify.createServer({name:"FabMo Engine"}) gives no handleUncaughtExceptions
\* option: whether restify catches what a handler throws and emits
\* 'uncaughtException' is the default of the restify in use (true before
\* restify 5, false from restify 5 on).
HandleUncaughtExceptions == {TRUE, FALSE}

\* index of the first "/" of s, 0 if there is none
IndexOfSlash(s) == IF \E i \in 1..Len(s) : s[i] = "/"
                   THEN CHOOSE i \in 1..Len(s) : s[i] = "/" /\ \A j \in 1..(i - 1) : s[j] # "/"
                   ELSE 0

\* req.url.split('/'): the array of the substrings between the slashes
RECURSIVE SplitSlash(_)
SplitSlash(s) == IF IndexOfSlash(s) = 0 THEN << Str(s) >>
                 ELSE << Str(SubSeq(s, 1, IndexOfSlash(s) - 1)) >>
                      \o SplitSlash(SubSeq(s, IndexOfSlash(s) + 1, Len(s)))

\* url_arr.join('/'): an undefined element is rendered as the empty string
RECURSIVE JoinSlash(_)
JoinSlash(arr) == IF arr = << >> THEN << >>
                  ELSE IF Len(arr) = 1 THEN OrEmpty(arr[1])
                  ELSE OrEmpty(arr[1]) \o << "/" >> \o JoinSlash(Tail(arr))

SpliceInserting(arr, v) == << arr[1], v >> \o Tail(arr)

\* url_arr.splice(1, 1, current_hash): the element at index 1 is replaced, or
\* current_hash is appended to an array of one element
Splice(arr, v) == IF Len(arr) >= 2 THEN [arr EXCEPT ![2] = v] ELSE Append(arr, v)

\* url_arr[1]
ElementOne(arr) == IF Len(arr) >= 2 THEN arr[2] ELSE Undefined

\* the path the 'NotFound' handler redirects to
NotFoundLocation(url, current_hash) ==
  IF ElementOne(SplitSlash(url)) # current_hash
    THEN JoinSlash(Splice(SplitSlash(url), current_hash))
    ELSE << "/" >>

\* The request URLs: a slash, then up to MaxSegments segments separated by
\* slashes; a segment is empty, the persisted version or something else.
UrlSegments(v) == {Str(<< >>), Str(<< "a" >>), Str(<< "b" >>), Str(OrEmpty(v))}

Urls(v) == {<< "/" >> \o JoinSlash(segs) :
              segs \in UNION {[1..k -> UrlSegments(v)] : k \in 1..MaxSegments}}

Serving == server.state = "listening" /\ crashed = "no"

boot_vars == << argv_debug, platform, engine_cfg, secret_file, version, firmware,
                machine_set, connected, auth_secret, completed, now, pending,
                cbCount, started, final_calls, final_spent, failed_stage,
                random, this_time_version, ncalls, version_writes, gated_calls,
                secret_io >>

\* a request arrives; the router will or will not find a route for it
http_request ==
  \E u \in Urls(engine_cfg.version) : \E matched \in BOOLEAN :
    /\ Serving /\ req.phase = "idle"
    /\ req' = [phase |-> "pre", url |-> u, matched |-> matched, ran |-> << >>,
               thrown |-> "", rewrites |-> 0]
    /\ res' = << >>
    /\ UNCHANGED << clock, relay, boot_vars, server, crashed >>

\* restify's strip(path): a slash is dropped when the character after it
\* is a slash; at the last character "next" still holds that character, so
\* a trailing slash of a longer path is dropped as well
RECURSIVE StripFrom(_, _)
StripFrom(path, i) ==
  IF i > Len(path) THEN << >>
  ELSE LET next == IF i # Len(path) THEN path[i + 1]
                   ELSE IF i > 1 THEN path[i] ELSE "undefined"
       IN (IF path[i] = "/" /\ next = "/" THEN << >> ELSE << path[i] >>)
          \o StripFrom(path, i + 1)

SanitizePathIdentity(url) == url

\* restify.pre.sanitizePath(): req.url = strip(req.url)
SanitizePath(url) == StripFrom(url, 1)

\* the handlers registered with server.pre run before routing, in order
pre_handler ==
  /\ Serving /\ req.phase = "pre" /\ Len(req.ran) < Len(server.pre)
  /\ req' = [req EXCEPT !.ran = Append(@, server.pre[Len(req.ran) + 1]),
                        !.url = IF server.pre[Len(req.ran) + 1] = "sanitizePath"
                                  THEN SanitizePath(@) ELSE @]
  /\ UNCHANGED << clock, relay, boot_vars, server, crashed, res >>

\* routing: a matched request goes on to the server.use handlers, an
\* unmatched one makes the server emit 'NotFound'
route ==
  /\ Serving /\ req.phase = "pre" /\ Len(req.ran) = Len(server.pre)
  /\ req' = [req EXCEPT !.phase = IF req.matched THEN "use" ELSE "notfound"]
  /\ UNCHANGED << clock, relay, boot_vars, server, crashed, res >>

\* the handlers registered with server.use run in the order of registration
use_handler ==
  /\ Serving /\ req.phase = "use"
  /\ LET i == Len(req.ran) - Len(server.pre) + 1
     IN IF i <= Len(server.use)
          THEN req' = [req EXCEPT !.ran = Append(@, server.use[i])]
          ELSE req' = [req EXCEPT !.phase = "route"]
  /\ UNCHANGED << clock, relay, boot_vars, server, crashed, res >>

\* the route's handler answers the request
route_handler_responds ==
  /\ Serving /\ req.phase = "route"
  /\ res' = Append(res, [kind |-> "route"])
  /\ req' = [req EXCEPT !.phase = "done"]
  /\ UNCHANGED << clock, relay, boot_vars, server, crashed >>

\* the route's handler throws: restify emits 'uncaughtException', or the
\* exception is nobody's and ends the process
route_handler_throws ==
  \E m \in ErrMessages : \E caught \in HandleUncaughtExceptions :
    /\ Serving /\ req.phase = "route"
    /\ IF caught
         THEN req' = [req EXCEPT !.phase = "uncaught", !.thrown = m] /\ UNCHANGED crashed
         ELSE req' = [req EXCEPT !.phase = "lost", !.thrown = m] /\ crashed' = m
    /\ UNCHANGED << clock, relay, boot_vars, server, res >>

\* server.on('NotFound', ...)
NotFound ==
  /\ Serving /\ req.phase = "notfound"
  /\ res' = Append(res, [kind |-> "redirect",
                         location |-> NotFoundLocation(req.url, engine_cfg.version)])
  /\ req' = [req EXCEPT !.phase = "done"]
  /\ UNCHANGED << clock, relay, boot_vars, server, crashed >>

\* the client follows the redirect of the not-found handler: a new request
\* for the location it was given, unless that is the root
follow_redirect ==
  \E matched \in BOOLEAN :
    /\ Serving /\ req.phase = "done" /\ ~req.matched
    /\ Len(res) = 1 /\ res[1].kind = "redirect"
    /\ res[1].location # << "/" >>
    /\ req.rewrites < MaxRewrites
    /\ req' = [phase |-> "pre", url |-> res[1].location, matched |-> matched,
               ran |-> << >>, thrown |-> "", rewrites |-> req.rewrites + 1]
    /\ res' = << >>
    /\ UNCHANGED << clock, relay, boot_vars, server, crashed >>

\* the response has been sent: the server waits for the next request
http_finished ==
  /\ Serving /\ req.phase = "done"
  /\ req' = NoRequest
  /\ res' = << >>
  /\ UNCHANGED << clock, relay, boot_vars, server, crashed >>

AnswerWithStack(m) == [status |-> "error", message |-> m, stack |-> "stack"]

\* answer = { status:"error", message:err.message }
Answer(m) == [status |-> "error", message |-> m]

\* server.on('uncaughtException', ...): res.json(answer)
uncaughtException ==
  /\ Serving /\ req.phase = "uncaught"
  /\ res' = Append(res, [kind |-> "json", body |-> Answer(req.thrown)])
  /\ req' = [req EXCEPT !.phase = "done"]
  /\ UNCHANGED << clock, relay, boot_vars, server, crashed >>

\* ---------------------------------------------------------- Engine.setTime
\* new Date(obj.utc): the fields the getUTC...() calls return; getUTCMonth()
\* counts from 0 and getUTCDay() is the day of the week, and an obj without a
\* usable utc gives an Invalid Date whose fields are all NaN
UtcDates ==
  {[valid |-> TRUE, year |-> 2020, month |-> 0, date |-> 15, day |-> 3,
    hours |-> 10, minutes |-> 30, seconds |-> 0],
   [valid |-> TRUE, year |-> 2021, month |-> 11, date |-> 31, day |-> 5,
    hours |-> 23, minutes |-> 59, seconds |-> 59],
   [valid |-> FALSE, year |-> 0, month |-> 0, date |-> 0, day |-> 0,
    hours |-> 0, minutes |-> 0, seconds |-> 0]}

\* cmd = 'timedatectl set-time ' + t + '; timedatectl', t built from
\* getUTCFullYear, getUTCMonth, getUTCDay, getUTCHours, getUTCMinutes,
\* getUTCSeconds
SetTimeCmd(d) ==
  [nan |-> ~d.valid, year |-> d.year, month |-> d.month, day |-> d.day,
   hours |-> d.hours, minutes |-> d.minutes, seconds |-> d.seconds]

MustSetTimeAlways(synced) == TRUE

\* if(!this.time_synced)
MustSetTime(synced) == ~synced

\* Engine.setTime(obj), d being new Date(obj.utc); with obj null or undefined
\* reading obj.utc throws, after time_synced was set
setTime ==
  \E d \in UtcDates, obj_is_object \in BOOLEAN :
    /\ setTime_calls < MaxSetTimeCalls
    /\ setTime_calls' = setTime_calls + 1
    /\ IF MustSetTime(time_synced)
         THEN /\ time_synced' = TRUE
              /\ shell_cmds' = IF obj_is_object THEN Append(shell_cmds, SetTimeCmd(d))
                               ELSE shell_cmds
         ELSE UNCHANGED << time_synced, shell_cmds >>
    /\ UNCHANGED << relay, boot_vars, server, crashed, http >>

\* new Engine(): this.time_synced = false
TimeUnsynced ==
  /\ time_synced = FALSE
  /\ shell_cmds = << >>
  /\ setTime_calls = 0

\* ------------------------------------------- the dashboard's message relay

\* this.machine = null
NullMachine == [object |-> FALSE, ip |-> "", port |-> 0, status |-> ""]

\* this.ui = null
NullUi == [menu |-> "null"]

\* the machine handles the dashboard can hold: the relay reads ip and port,
\* the handle carries more than these two fields
MachineHandles ==
  {[object |-> TRUE, ip |-> "10.0.0.1", port |-> 80, status |-> "idle"],
   [object |-> TRUE, ip |-> "10.0.0.2", port |-> 8080, status |-> "running"]}

\* the ui object: setMenuOpen() and setMenuClosed() record the menu's state
UiStates == {[menu |-> "open"], [menu |-> "closed"]}

\* the windows a message can come from (e.source)
Frames == {"app1", "app2"}

\* e.data: not an object at all, or an object whose fields are read with ===
NullData == [object |-> FALSE, showDRO |-> "undefined", job |-> "undefined",
             getMachine |-> "undefined"]

EventData ==
  {NullData} \cup
  [object : {TRUE}, showDRO : {"undefined", "true", "false", "other"},
   job : {"undefined", "null", "job1"}, getMachine : {"undefined", "true", "other"}]

NoEvent == [data |-> NullData, source |-> "none"]

BranchTruthy(d) ==
  IF d.showDRO \in {"true", "other"} THEN "openRightMenu"
  ELSE IF d.showDRO = "false" THEN "closeRightMenu"
  ELSE IF d.job # "undefined" THEN "add_job"
  ELSE IF d.getMachine \in {"true", "other"} THEN "getMachine"
  ELSE "none"

\* the else-if chain of the listener: the first branch whose test holds
Branch(d) ==
  IF d.showDRO = "true" THEN "openRightMenu"
  ELSE IF d.showDRO = "false" THEN "closeRightMenu"
  ELSE IF d.job # "undefined" THEN "add_job"
  ELSE IF d.getMachine = "true" THEN "getMachine"
  ELSE "none"

MachineReplyWhole(m) == m

\* msg = {'ip':this.machine.ip, 'port':this.machine.port}
MachineReply(m) == [ip |-> m.ip, port |-> m.port]

ReplyBroadcast(src) == << "app1", "app2" >>

\* e.source.postMessage(msg,'*'): the windows the reply is posted to
ReplyTargets(src) == << src >>

MenuStateAlways(machine, ui, state) == [menu |-> state]

\* if(that.machine) { that.ui.setMenuOpen() / setMenuClosed() }
MenuState(machine, ui, state) == IF machine # NullMachine THEN [menu |-> state] ELSE ui

\* $("#main").addClass / removeClass("offcanvas-overlap-left")
MainClass(machine, before, after) == after

JobManagerAlways(err) == TRUE

\* if(err) { console.log(err); } else { this.jobManager(); }
JobManagerRuns(err) == err = NoErr

\* openRightMenu (state "open", class added) and closeRightMenu (state
\* "closed", class removed); that.ui.setMenu...() on a null ui is a TypeError
RightMenu(state) ==
  /\ main_class' = MainClass(dashboard_machine, main_class, state = "open")
  /\ IF dashboard_machine # NullMachine /\ dashboard_ui = NullUi
       THEN /\ page_thrown' = "TypeError"
            /\ UNCHANGED dashboard_ui
       ELSE /\ page_thrown' = "no"
            /\ dashboard_ui' = MenuState(dashboard_machine, dashboard_ui, state)

\* the listener threw before it changed anything
ListenerThrows ==
  /\ page_thrown' = "TypeError"
  /\ posted' = << >>
  /\ UNCHANGED << dashboard_ui, main_class, add_job_calls >>

\* the 'message' listener handles the event with data d from window src: one
\* run of it, from the event to its return or throw; posted holds what this
\* run posted
onmessage(d, src) ==
  /\ Branch(d) = "add_job" => Len(add_job_calls) + Len(launched) < MaxJobs
  /\ event' = [data |-> d, source |-> src]
  /\ IF ~d.object THEN ListenerThrows
     ELSE IF Branch(d) = "openRightMenu"
       THEN RightMenu("open") /\ posted' = << >> /\ UNCHANGED add_job_calls
     ELSE IF Branch(d) = "closeRightMenu"
       THEN RightMenu("closed") /\ posted' = << >> /\ UNCHANGED add_job_calls
     ELSE IF Branch(d) = "add_job"
       THEN IF dashboard_machine = NullMachine THEN ListenerThrows
            ELSE /\ add_job_calls' = Append(add_job_calls, d.job)
                 /\ page_thrown' = "no"
                 /\ posted' = << >>
                 /\ UNCHANGED << dashboard_ui, main_class >>
     ELSE IF Branch(d) = "getMachine"
       THEN IF dashboard_machine = NullMachine THEN ListenerThrows
            ELSE /\ posted' = [i \in DOMAIN ReplyTargets(src) |->
                                 [to |-> ReplyTargets(src)[i],
                                  msg |-> MachineReply(dashboard_machine)]]
                 /\ page_thrown' = "no"
                 /\ UNCHANGED << dashboard_ui, main_class, add_job_calls >>
     ELSE /\ page_thrown' = "no"
          /\ posted' = << >>
          /\ UNCHANGED << dashboard_ui, main_class, add_job_calls >>
  /\ UNCHANGED << dashboard_machine, launched >>
  /\ UNCHANGED << clock, boot_vars, server, crashed, http >>

message == \E d \in EventData, src \in Frames : onmessage(d, src)

\* the callback given to add_job for the i-th call in flight, called with err
add_job_callback(i, err) ==
  /\ i \in DOMAIN add_job_calls
  /\ add_job_calls' = [k \in 1..(Len(add_job_calls) - 1) |->
                         IF k < i THEN add_job_calls[k] ELSE add_job_calls[k + 1]]
  /\ launched' = IF JobManagerRuns(err) THEN Append(launched, "job-manager")
                 ELSE launched
  /\ UNCHANGED << dashboard_machine, dashboard_ui, main_class, posted, event, page_thrown >>
  /\ UNCHANGED << clock, boot_vars, server, crashed, http >>

AddJobErrs == {NoErr, "add_job failed"}

\* machine.add_job calls its callback, with or without an err
add_job_calls_back ==
  \E i \in DOMAIN add_job_calls, err \in AddJobErrs : add_job_callback(i, err)

\* closes the right menu when #main has the class, opens it otherwise
bindRightMenu == IF main_class THEN RightMenu("closed") ELSE RightMenu("open")

\* the "k" key (test) or the toggle button (no test): with a machine and a
\* usable keypad the menu is toggled, otherwise the user is only notified
keypad ==
  \E test \in BOOLEAN, statusKeypad \in BOOLEAN :
    /\ IF dashboard_machine # NullMachine
         THEN IF dashboard_ui = NullUi
                THEN /\ page_thrown' = "TypeError"
                     /\ UNCHANGED << dashboard_ui, main_class >>
              ELSE IF statusKeypad /\ test THEN bindRightMenu
              ELSE /\ page_thrown' = "no"
                   /\ UNCHANGED << dashboard_ui, main_class >>
         ELSE /\ page_thrown' = "no"
              /\ UNCHANGED << dashboard_ui, main_class >>
    /\ UNCHANGED << dashboard_machine, launched, event, add_job_calls, posted >>
    /\ UNCHANGED << clock, boot_vars, server, crashed, http >>

\* new Dashboard(): no machine, no ui, nothing handled yet
DashboardConstructed ==
  /\ dashboard_machine = NullMachine
  /\ dashboard_ui = NullUi
  /\ main_class = FALSE
  /\ launched = << >>
  /\ add_job_calls = << >>
  /\ posted = << >>
  /\ event = NoEvent
  /\ page_thrown = "no"

\* -------------------------------------------------------------- the machine
NoVersion == [set |-> FALSE, hash |-> << >>, number |-> << >>, debug |-> FALSE]

Platforms == {"linux", "darwin", "win32"}

\* What the configuration file and the secret file can hold when the process
\* starts.  The boots explored are those of an installed engine under every
\* debug mode and persisted version token, those of a first run on every
\* platform, and those of an installed engine with no profile selected and
\* with every kind of secret file.
InstalledConfig(v, p) ==
  [init |-> TRUE, version |-> v, profile |-> p, ports |-> "linux", server_port |-> 0]

FirstRunConfig ==
  [init |-> FALSE, version |-> Undefined, profile |-> Undefined, ports |-> "none",
   server_port |-> 0]

GoodSecretFile == [exists |-> TRUE, len |-> SecretLen, id |-> 1]

SecretFiles == { NoFile,
                 [exists |-> TRUE, len |-> 0, id |-> 0],
                 [exists |-> TRUE, len |-> SecretLen - 1, id |-> 1],
                 GoodSecretFile }

\* The state after `new Engine()`, before Engine.start is called.
Init ==
  /\ \/ /\ argv_debug \in {"absent", "true"}
        /\ platform = "linux"
        /\ engine_cfg \in {InstalledConfig(v, Str(<< "a" >>)) : v \in Values(MaxLen)}
        /\ secret_file = GoodSecretFile
     \/ /\ argv_debug = "slow"
        /\ platform = "linux"
        /\ engine_cfg = InstalledConfig(Str(<< "a" >>), Str(<< "a" >>))
        /\ secret_file = GoodSecretFile
     \/ /\ argv_debug = "absent"
        /\ platform \in Platforms
        /\ engine_cfg = FirstRunConfig
        /\ secret_file = NoFile
     \/ /\ argv_debug = "absent"
        /\ platform = "linux"
        /\ engine_cfg \in {InstalledConfig(Str(<< "a" >>), p) :
                                p \in {Undefined, Str(<< >>)}}
        /\ secret_file = GoodSecretFile
     \/ /\ argv_debug = "absent"
        /\ platform = "linux"
        /\ engine_cfg = InstalledConfig(Str(<< "a" >>), Str(<< "a" >>))
        /\ secret_file \in SecretFiles
  /\ version = NoVersion
  /\ firmware = NoFirmware
  /\ machine_set = FALSE
  /\ connected = FALSE
  /\ auth_secret = NoSecret
  /\ server = NoServer
  /\ completed = 0
  /\ now = Idle
  /\ pending = {}
  /\ cbCount = [s \in StageNames |-> 0]
  /\ started = << >>
  /\ final_calls = << >>
  /\ final_spent = FALSE
  /\ failed_stage = "none"
  /\ crashed = "no"
  /\ random = 0
  /\ this_time_version = << >>
  /\ ncalls = [c \in Callees |-> 0]
  /\ version_writes = << >>
  /\ gated_calls = {}
  /\ secret_read_failed = FALSE
  /\ secret_writing = {}
  /\ req = NoRequest
  /\ res = << >>
  /\ DashboardConstructed
  /\ TimeUnsynced

Next ==
  \/ Start
  \/ SeriesCallback
  \/ SeriesCallbackAgainThrows
  \/ collaborator_calls_back
  \/ setup_application
  \/ load_engine_config
  \/ check_engine_config
  \/ EngineConfigFirstTime_globbed
  \/ EngineConfigFirstTime_updated
  \/ load_profiles
  \/ load_profiles_loaded
  \/ load_users
  \/ load_users_loaded
  \/ profile_shim
  \/ profile_shim_read
  \/ get_fabmo_version
  \/ getVersion_hashed
  \/ getVersion_read
  \/ clear_approot
  \/ clear_approot_cleared
  \/ create_data_directories
  \/ apply_engine_config
  \/ setup_database
  \/ clean_database
  \/ connect
  \/ connect_connected
  \/ launch_detection_daemon
  \/ load_machine_config
  \/ load_machine_config_loaded
  \/ set_units
  \/ load_driver_config
  \/ load_driver_config_configured
  \/ load_driver_config_null_configured
  \/ get_g2_version
  \/ get_g2_version_got
  \/ g2_shim
  \/ g2_shim_deleted
  \/ g2_shim_restored
  \/ load_opensbp_commands
  \/ load_opensbp_config
  \/ apply_machine_config
  \/ configure_dashboard
  \/ load_apps
  \/ load_apps_loaded
  \/ load_macros
  \/ load_instance_config
  \/ apply_instance_config
  \/ generate_auth_key
  \/ generate_auth_key_read
  \/ generate_auth_key_written
  \/ start_server
  \/ start_server_listening

Spec == Init /\ [][Next]_vars

\* ---------------------------------------------------- the server at work
\* The states in which a boot with a connected machine, a git hash "a" or
\* none, no version.json and a good secret file leaves the engine once the caller's
\* callback has been invoked: without --debug the persisted version is one
\* the unchanged branch left alone, with --debug it is the random token.
BootedCalls(cleared) ==
  [c \in Callees |->
     IF c \in {"configureDriver(null)", "engine.set(profile)", "engine.update", "glob",
               "readFile(.default)", "driver.deleteMany", "driver.restore",
               "writeFile(auth_secret)"} THEN 0
     ELSE IF c = "clearAppRoot" THEN cleared
     ELSE IF c = "createDataDirectories" THEN 2
     ELSE 1]

BootedVersion(hash, debug) == [set |-> TRUE, hash |-> hash, number |-> << >>, debug |-> debug]

\* the engine after a boot that found its machine, the server listening
Booted ==
  /\ platform = "linux"
  /\ \/ /\ argv_debug = "absent"
        /\ engine_cfg \in {InstalledConfig(v, Str(<< "a" >>)) :
                             v \in {w \in Values(MaxLen) : Trim(OrEmpty(w)) = << "a" >>}}
        /\ version = BootedVersion(<< "a" >>, FALSE)
        /\ random = 0
        /\ this_time_version = << "a" >>
        /\ version_writes = << >>
        /\ ncalls = BootedCalls(0)
     \/ /\ argv_debug = "absent"
        /\ engine_cfg \in {InstalledConfig(v, Str(<< "a" >>)) :
                             v \in {w \in Values(MaxLen) : Trim(OrEmpty(w)) = << >>}}
        /\ version = BootedVersion(<< >>, FALSE)
        /\ random = 0
        /\ this_time_version = << >>
        /\ version_writes = << >>
        /\ ncalls = BootedCalls(0)
     \/ /\ argv_debug \in {"true", "slow"}
        /\ \E f \in RandomFloors :
             /\ random = DebugRandom(f)
             /\ engine_cfg = InstalledConfig(Str(NumberToString(DebugRandom(f))),
                                             Str(<< "a" >>))
             /\ version_writes = << Str(NumberToString(DebugRandom(f))),
                                    Str(NumberToString(DebugRandom(f))) >>
        /\ version = BootedVersion(<< "a" >>, TRUE)
        /\ this_time_version = << >>
        /\ ncalls = BootedCalls(1)
  /\ secret_file = GoodSecretFile
  /\ firmware = [version |-> "fbs", build |-> "fb", config |-> "fbc"]
  /\ machine_set = TRUE
  /\ connected = TRUE
  /\ auth_secret = FileSecret(GoodSecretFile)
  /\ server = [state |-> "listening", cookieSecret |-> FileSecret(GoodSecretFile),
               pre |-> PreChain, use |-> UseChain(argv_debug)]
  /\ completed = NStages
  /\ now = Idle
  /\ pending = {}
  /\ cbCount = [s \in StageNames |-> 1]
  /\ started = Stages
  /\ final_calls = << << NoErr, "engine" >> >>
  /\ final_spent = FALSE
  /\ failed_stage = "none"
  /\ crashed = "no"
  /\ gated_calls = {}
  /\ secret_read_failed = FALSE
  /\ secret_writing = {}

ServerInit ==
  /\ Booted
  /\ req = NoRequest
  /\ res = << >>
  /\ DashboardConstructed
  /\ TimeUnsynced

ServerNext ==
  \/ http_request
  \/ http_finished
  \/ follow_redirect
  \/ pre_handler
  \/ route
  \/ use_handler
  \/ route_handler_responds
  \/ route_handler_throws
  \/ NotFound
  \/ uncaughtException

ServerSpec == ServerInit /\ [][ServerNext]_vars

\* -------------------------------------------------------- the relay at work
\* the page the booted engine serves: machine and ui are fields other modules
\* of the page assign, so the listener can find either of them set or null
RelayInit ==
  /\ Booted
  /\ argv_debug = "absent"
  /\ engine_cfg = InstalledConfig(Str(<< "a" >>), Str(<< "a" >>))
  /\ req = NoRequest
  /\ res = << >>
  /\ dashboard_machine \in {NullMachine} \cup MachineHandles
  /\ dashboard_ui \in {NullUi} \cup UiStates
  /\ main_class \in BOOLEAN
  /\ launched = << >>
  /\ add_job_calls = << >>
  /\ posted = << >>
  /\ event = NoEvent
  /\ page_thrown = "no"
  /\ TimeUnsynced

RelayNext ==
  \/ message
  \/ add_job_calls_back
  \/ keypad

RelaySpec == RelayInit /\ [][RelayNext]_vars

\* ---------------------------------------------------- the clock being set
\* the booted engine, its setTime called any number of times
TimeInit ==
  /\ Booted
  /\ req = NoRequest
  /\ res = << >>
  /\ DashboardConstructed
  /\ TimeUnsynced

TimeNext == setTime

TimeSpec == TimeInit /\ [][TimeNext]_vars

\* ------------------------------------------------------------------ claims
\* the build identity: the hash if it is not empty, else the number, trimmed
BuildIdentity == Trim(IF version.hash # << >> THEN version.hash ELSE version.number)

\* this step delivers stage s's callback for the first time
Completes(s) == now.k # "cb" /\ now'.k = "cb" /\ now'.stage = s /\ cbCount[s] = 0

DigitValue(c) == (CHOOSE i \in 1..10 : DigitChars[i] = c) - 1

RECURSIVE ParseDecimal(_)
ParseDecimal(s) == IF s = << >> THEN 0
                   ELSE 10 * ParseDecimal(SubSeq(s, 1, Len(s) - 1)) + DigitValue(s[Len(s)])

IsDecimal(s) == /\ s # << >>
                /\ \A i \in 1..Len(s) : \E d \in 1..10 : DigitChars[d] = s[i]
                /\ NumberToString(ParseDecimal(s)) = s

\* C1: the stages are invoked in list order, each at most once; every
\* collaborator call in flight was issued by the stage invoked last, and every
\* stage invoked before it has signalled completion: no two stages, and no
\* stage and an earlier stage's call, are in flight together.
C1_OneStageAtATime ==
  /\ \A i \in 1..Len(started) : started[i] = Stages[i]
  /\ \A c \in pending : c.stage = started[Len(started)]
  /\ \A i \in 1..(Len(started) - 1) : cbCount[started[i]] >= 1

\* C2: once a stage has reported an error, the caller's callback has been
\* invoked exactly once, with that error alone; from then on no stage is
\* invoked, the server does not change, and the callback is not invoked again.
C2_AbortOnFirstError ==
  [][ /\ (failed_stage = "none" /\ failed_stage' # "none")
           => final_calls' = << << now.err >> >>
      /\ failed_stage # "none"
           => (started' = started /\ server' = server /\ final_calls' = final_calls)
    ]_vars

\* C3: the server exists only when all 28 stages before start_server have
\* completed and the secret is set; the caller's callback is invoked with
\* (null, engine) at most once, and only when the server is listening.
C3_ServerAfterAllStages ==
  /\ server.state # "none"
       => /\ \A i \in 1..(NStages - 1) : cbCount[Stages[i]] >= 1
          /\ auth_secret.def
          /\ crashed = "no"
  /\ \A i \in 1..Len(final_calls) :
       final_calls[i][1] = NoErr
         => /\ final_calls[i] = << NoErr, "engine" >>
            /\ server.state = "listening"
            /\ Len(final_calls) = 1

\* C4: a gated stage that found isConnected() false issues no hardware or
\* driver-configuration call.
C4_GatedStagesSilent == gated_calls = {}

\* C5 (its safety half): in a boot whose connect stage completed without a
\* connection and in which no stage reported an error, nothing is thrown and
\* no stage's callback is delivered twice.
C5_BootSurvivesNoMachine ==
  (cbCount["connect"] >= 1 /\ ~connected /\ failed_stage = "none")
    => (crashed = "no" /\ \A s \in StageNames : cbCount[s] <= 1)

\* the calls the gated stages make on a connected machine
ConnectedCalls == {"driver.setUnits", "configureDriver", "driver.get",
                   "sbp_runtime.loadCommands", "configureOpenSBP",
                   "configureInstance", "instance.apply"}

\* C6 as claimed: whichever of the seven hardware-dependent calls fails, the
\* stage's callback is invoked without an error.
C6_AllHardwareErrorsSwallowed ==
  (now.k = "cb" /\ now.callee \in ConnectedCalls /\ now.reply # NoErr)
    => now.err = NoErr

\* C6 as amended: a failed configureDriver or driver.get is swallowed, the
\* stage completes without error and the next stage is invoked; a failed
\* driver.setUnits, loadCommands, configureOpenSBP, configureInstance or
\* instance.apply reaches the sequencer, which invokes no further stage and
\* hands the error to the caller's callback.
C6_OnlyDriverConfigAndFirmwareSwallowed ==
  [][ (now.k = "cb" /\ now.callee \in ConnectedCalls /\ now.reply # NoErr)
        => IF now.callee \in {"configureDriver", "driver.get"}
             THEN /\ now.err = NoErr
                  /\ now' = RunToken(Stages[StageIndex(now.stage) + 1])
                  /\ final_calls' = final_calls
             ELSE /\ now.err = now.reply
                  /\ now' = Idle
                  /\ started' = started
                  /\ final_calls' = << << now.reply >> >>
    ]_vars

C6_Witness ==
  /\ cbCount["get_g2_version"] = 1
  /\ firmware = NoFirmware
  /\ connected
  /\ now = RunToken("g2_shim")

\* C7 as claimed: a failure callback receives the error and the name of the
\* stage it came from.
C7_FailureCallbackNamesStage ==
  \A i \in 1..Len(final_calls) :
    final_calls[i][1] # NoErr
      => (Len(final_calls[i]) >= 2 /\ final_calls[i][2] = failed_stage)

\* C7 as amended: a failure callback receives the error and nothing else.
C7_FailureCallbackGetsErrorOnly ==
  \A i \in 1..Len(final_calls) :
    final_calls[i][1] # NoErr
      => (Len(final_calls[i]) = 1 /\ final_calls[i][1] \in Errors)

C7_Witness ==
  /\ failed_stage = "setup_database"
  /\ final_calls = << << "err" >> >>

\* C8: in a boot without --debug whose persisted token is absent or differs,
\* trimmed, from the build identity, clear_approot completes with the
\* persisted token equal to the identity and clearAppRoot called once.
C8_TokenFollowsIdentity ==
  [][ ( /\ argv_debug = "absent"
        /\ Completes("clear_approot")
        /\ (~engine_cfg.version.def \/ Trim(engine_cfg.version.s) # BuildIdentity) )
        => ( /\ engine_cfg'.version = Str(BuildIdentity)
             /\ ncalls'["clearAppRoot"] = 1 )
    ]_vars

\* C9: in a debug boot, once clear_approot has completed, the persisted
\* version is the decimal string of an n with 10000 <= n < 99999, both writes
\* of the stage stored it, and clearAppRoot was called.
C9_DebugTokenInRange ==
  (argv_debug # "absent" /\ cbCount["clear_approot"] >= 1)
    => /\ engine_cfg.version.def
       /\ IsDecimal(engine_cfg.version.s)
       /\ ParseDecimal(engine_cfg.version.s) >= 10000
       /\ ParseDecimal(engine_cfg.version.s) < 99999
       /\ version_writes = << engine_cfg.version, engine_cfg.version >>
       /\ ncalls["clearAppRoot"] = 1

C9_Witness ==
  /\ argv_debug = "true"
  /\ cbCount["clear_approot"] = 1
  /\ engine_cfg.version = Str(<< "9", "9", "9", "9", "8" >>)

\* C10: in a boot without --debug whose persisted token equals, trimmed, the
\* trimmed build identity, clear_approot calls nothing, leaves config.engine
\* as it is and completes without error.
C10_UnchangedIsNoOp ==
  [][ ( /\ argv_debug = "absent"
        /\ now = RunToken("clear_approot")
        /\ Trim(OrEmpty(engine_cfg.version)) = BuildIdentity )
        => ( /\ engine_cfg' = engine_cfg
             /\ ncalls' = ncalls
             /\ pending' = pending
             /\ version_writes' = version_writes
             /\ now' = CbToken("clear_approot", NoErr, "", NoErr) )
    ]_vars

C10_Witness ==
  /\ argv_debug = "absent"
  /\ cbCount["clear_approot"] = 1
  /\ ncalls["clearAppRoot"] = 0
  /\ engine_cfg.version = Str(<< " ", "a" >>)
  /\ BuildIdentity = << "a" >>

\* C11: once clear_approot has completed in a boot without --debug, the
\* persisted version token is exactly the build identity, whichever branch
\* the stage took.
C11_TokenIsIdentity ==
  (argv_debug = "absent" /\ cbCount["clear_approot"] >= 1)
    => engine_cfg.version = Str(BuildIdentity)

\* C12: when config.clearAppRoot answers with an error, clear_approot's
\* callback is invoked without an error, the new version token (the random
\* one in debug mode, the build identity otherwise) is persisted, and the
\* sequencer goes on to create_data_directories.
C12_ClearFailureTolerated ==
  [][ ( /\ now.k = "cb"
        /\ now.stage = "clear_approot"
        /\ now.callee = "clearAppRoot"
        /\ now.reply # NoErr )
        => ( /\ now.err = NoErr
             /\ engine_cfg.version = IF argv_debug # "absent"
                                       THEN Str(NumberToString(random))
                                       ELSE Str(BuildIdentity)
             /\ now' = RunToken("create_data_directories")
             /\ final_calls' = final_calls
             /\ crashed' = "no" )
    ]_vars

C12_Witness ==
  /\ argv_debug = "absent"
  /\ now = CbToken("clear_approot", NoErr, "clearAppRoot", "err")
  /\ engine_cfg.version = Str(<< "a" >>)
  /\ version_writes = << Str(<< "a" >>) >>

\* C13: while the secret file holds 512 characters, no write of it has been
\* issued in this boot and no read of it has failed, no step issues a write
\* or changes the file, and whatever secret the engine or the server's
\* session middleware takes is the file's content.  The file after the boot
\* is the file before it, so the same holds of the next boot.
C13_SecretReusedVerbatim ==
  [][ ( /\ secret_file.exists
        /\ secret_file.len = SecretLen
        /\ ncalls["writeFile(auth_secret)"] = 0
        /\ ~secret_read_failed' )
        => ( /\ secret_file' = secret_file
             /\ ncalls'["writeFile(auth_secret)"] = 0
             /\ auth_secret' # auth_secret => auth_secret' = FileSecret(secret_file)
             /\ server'.cookieSecret # server.cookieSecret
                  => server'.cookieSecret = FileSecret(secret_file) )
    ]_vars

C13_Witness ==
  /\ server.state = "listening"
  /\ ncalls["readFile(auth_secret)"] = 1
  /\ ~secret_read_failed
  /\ ncalls["writeFile(auth_secret)"] = 0
  /\ secret_file = GoodSecretFile
  /\ server.cookieSecret = FileSecret(GoodSecretFile)

\* C14: a boot issues at most one write of the secret file; generate_auth_key
\* completes straight from the read only when the read succeeded on a file of
\* 512 characters, and otherwise after one write of a new secret of 512 hex
\* characters that it adopted; after a successful write the file holds
\* auth_secret.
C14_OneRegenerationOneWrite ==
  /\ ncalls["writeFile(auth_secret)"] <= 1
  /\ (now.k = "cb" /\ now.stage = "generate_auth_key")
       => now.callee \in {"readFile(auth_secret)", "writeFile(auth_secret)"}
  /\ (now.k = "cb" /\ now.callee = "readFile(auth_secret)")
       => ( /\ now.reply = NoErr
            /\ ncalls["writeFile(auth_secret)"] = 0
            /\ secret_file.exists
            /\ secret_file.len = SecretLen
            /\ auth_secret = FileSecret(secret_file) )
  /\ (now.k = "cb" /\ now.callee = "writeFile(auth_secret)")
       => ( /\ ncalls["writeFile(auth_secret)"] = 1
            /\ auth_secret.def
            /\ auth_secret.len = SecretLen
            /\ now.reply = NoErr => (secret_file.exists /\ FileSecret(secret_file) = auth_secret) )

C14_Witness ==
  /\ now = CbToken("generate_auth_key", NoErr, "writeFile(auth_secret)", NoErr)
  /\ ~secret_read_failed
  /\ ncalls["writeFile(auth_secret)"] = 1
  /\ auth_secret = NewSecret(2)
  /\ secret_file = [exists |-> TRUE, len |-> SecretLen, id |-> 2]

\* the end of the segment of u that follows its leading slash
SegmentEnd(u) == IF Len(u) < 2 THEN Len(u) + 1
                 ELSE CHOOSE e \in 2..(Len(u) + 1) :
                        /\ e = Len(u) + 1 \/ u[e] = "/"
                        /\ \A j \in 2..(e - 1) : u[j] # "/"

\* C15: a request no route matches is answered with exactly one response, a
\* redirect: to "/" when the text between the first and the second slash of
\* the URL is the persisted version, and otherwise to the URL with that text
\* replaced by the persisted version and everything else as it was.
C15_NotFoundRedirects ==
  (req.phase = "done" /\ ~req.matched)
    => /\ Len(res) = 1
       /\ res[1].kind = "redirect"
       /\ res[1].location =
            IF Str(SubSeq(req.url, 2, SegmentEnd(req.url) - 1)) = engine_cfg.version
              THEN << "/" >>
              ELSE << "/" >> \o OrEmpty(engine_cfg.version)
                   \o SubSeq(req.url, SegmentEnd(req.url), Len(req.url))

C15_Witness ==
  /\ engine_cfg.version = Str(<< "a" >>)
  /\ req.phase = "done"
  /\ req.url = << "/", "b", "/", "a", "/", "b" >>
  /\ res = << [kind |-> "redirect", location |-> << "/", "a", "/", "a", "/", "b" >>] >>

\* C16 as claimed: the handlers of a request run in the order crossOrigin,
\* latency (--debug=slow), debug (--debug), queryParser, bodyParser,
\* sanitizePath, sessions, passport.initialize, passport.session,
\* gzipResponse.
C16_SanitizeAfterBodyParser ==
  (req.phase = "done" /\ req.matched)
    => req.ran = << "crossOrigin" >>
                 \o (IF argv_debug = "slow" THEN << "latency" >> ELSE << >>)
                 \o (IF argv_debug # "absent" THEN << "debug" >> ELSE << >>)
                 \o << "queryParser", "bodyParser", "sanitizePath", "sessions",
                       "passport.initialize", "passport.session", "gzipResponse" >>

\* C16 as amended: sanitizePath runs first, before routing; a request that
\* matches a route then runs crossOrigin, latency (--debug=slow), debug
\* (--debug), queryParser, bodyParser, sessions, passport.initialize,
\* passport.session, gzipResponse in this order; a request that matches no
\* route runs sanitizePath only.
C16_SanitizeFirst ==
  req.phase = "done"
    => req.ran = << "sanitizePath" >>
                 \o (IF ~req.matched THEN << >>
                     ELSE << "crossOrigin" >>
                          \o (IF argv_debug = "slow" THEN << "latency" >> ELSE << >>)
                          \o (IF argv_debug # "absent" THEN << "debug" >> ELSE << >>)
                          \o << "queryParser", "bodyParser", "sessions",
                                "passport.initialize", "passport.session",
                                "gzipResponse" >>)

C16_Witness ==
  /\ argv_debug = "slow"
  /\ req.phase = "done"
  /\ req.matched
  /\ Len(req.ran) = 10
  /\ req.ran[1] = "sanitizePath"
  /\ req.ran[6] = "bodyParser"

\* C17: when a route's handler throws, the request is answered with the JSON
\* body {status: "error", message: <the error's message>} and nothing else,
\* the process stays alive, the server keeps listening and goes on to the
\* next request.
C17_UncaughtAnswered ==
  [][ /\ (req.phase = "route" /\ req'.thrown # "")
           => (req'.phase = "uncaught" /\ crashed' = "no")
      /\ req.phase = "uncaught"
           => ( /\ res' = << [kind |-> "json",
                              body |-> [status |-> "error", message |-> req.thrown]] >>
                /\ req'.phase = "done"
                /\ server'.state = "listening"
                /\ crashed' = "no" )
      /\ (req.phase = "done" /\ req.thrown # "")
           => (req' = NoRequest /\ server'.state = "listening" /\ crashed' = "no")
    ]_vars

\* C18: a message with getMachine === true and neither a showDRO nor a job
\* field, handled while a machine handle is active, makes the listener post
\* exactly one reply, to the window the message came from, whose payload has
\* the two fields ip and port of the machine handle and nothing else.
C18_GetMachineRepliesToSource ==
  [][LET d == event'.data
         src == event'.source IN
       ( /\ onmessage(d, src)
         /\ d.getMachine = "true"
         /\ d.showDRO = "undefined"
         /\ d.job = "undefined"
         /\ dashboard_machine # NullMachine )
       => posted' = << [to |-> src,
                        msg |-> [ip |-> dashboard_machine.ip,
                                 port |-> dashboard_machine.port]] >>]_vars

C18_Witness ==
  /\ event.data.getMachine = "true"
  /\ event.data.showDRO = "undefined"
  /\ event.data.job = "undefined"
  /\ dashboard_machine # NullMachine
  /\ Len(posted) = 1
  /\ posted[1].to = event.source
  /\ DOMAIN posted[1].msg = {"ip", "port"}

\* C19: with no machine handle (this.machine null), a message with
\* showDRO === true or showDRO === false changes neither the open/closed
\* state of the panel in the page nor the menu state of the ui.
C19_ShowDROWithoutMachineIsNoOp ==
  [][LET d == event'.data
         src == event'.source IN
       ( /\ onmessage(d, src)
         /\ d.showDRO \in {"true", "false"}
         /\ dashboard_machine = NullMachine )
       => /\ main_class' = main_class
          /\ dashboard_ui' = dashboard_ui]_vars

\* C20: a message with a job field and no showDRO field, handled while a
\* machine handle is active, submits the payload to add_job exactly once;
\* launchApp('job-manager') happens only in the callback of an add_job call
\* in flight that reports no error; a callback with an error launches
\* nothing and posts nothing.
C20_JobThenJobManager ==
  [][ /\ LET d == event'.data
             src == event'.source IN
           ( /\ onmessage(d, src)
             /\ d.job # "undefined"
             /\ d.showDRO \notin {"true", "false"}
             /\ dashboard_machine # NullMachine )
           => /\ add_job_calls' = Append(add_job_calls, d.job)
              /\ launched' = launched
      /\ launched' # launched
           => /\ \E i \in DOMAIN add_job_calls : add_job_callback(i, NoErr)
              /\ launched' = Append(launched, "job-manager")
      /\ \A i \in DOMAIN add_job_calls : \A err \in AddJobErrs \ {NoErr} :
           add_job_callback(i, err) => /\ launched' = launched
                                       /\ posted' = posted ]_vars

C20_Witness ==
  /\ event.data.job = "job1"
  /\ event.data.showDRO = "undefined"
  /\ dashboard_machine # NullMachine
  /\ add_job_calls = << >>
  /\ launched = << "job-manager" >>

\* the actions one run of the listener performed: the panel or the ui menu
\* changed, a job was submitted, a reply was posted
ActionsPerformed ==
  (IF main_class' # main_class \/ dashboard_ui' # dashboard_ui THEN {"panel"} ELSE {})
  \cup (IF add_job_calls' # add_job_calls THEN {"job"} ELSE {})
  \cup (IF posted' # << >> THEN {"reply"} ELSE {})

\* C21: one run of the listener performs at most one of the three actions
\* (panel open/close, job submission, getMachine reply), whichever fields of
\* showDRO, job and getMachine the message sets together; a message with
\* showDRO neither true nor false, job undefined and getMachine not true
\* performs none, posts nothing and changes nothing of the page.
C21_AtMostOneActionPerMessage ==
  [][LET d == event'.data
         src == event'.source IN
       onmessage(d, src)
       => /\ Cardinality(ActionsPerformed) <= 1
          /\ ( /\ d.showDRO \notin {"true", "false"}
               /\ d.job = "undefined"
               /\ d.getMachine # "true" )
             => /\ ActionsPerformed = {}
                /\ UNCHANGED << dashboard_machine, dashboard_ui, main_class,
                                launched, add_job_calls >>]_vars

C21_Witness ==
  /\ event.data.showDRO = "false"
  /\ event.data.job = "job1"
  /\ event.data.getMachine = "true"
  /\ dashboard_machine # NullMachine
  /\ dashboard_ui = [menu |-> "closed"]
  /\ ~main_class
  /\ add_job_calls = << >>
  /\ posted = << >>

\* C22: over any sequence of Engine.setTime calls time_synced goes from false
\* to true once, on the first call, and never back; only the first call
\* can issue the time-set command (it issues one whenever it is given an
\* object); every later call issues nothing and changes nothing.
C22_TimeSetOnce ==
  [][ /\ time_synced => time_synced'
      /\ setTime_calls' = 1
           => /\ ~time_synced /\ time_synced'
              /\ shell_cmds = << >> /\ Len(shell_cmds') <= 1
      /\ setTime_calls > 0 => UNCHANGED << time_synced, shell_cmds >> ]_vars

C22_Witness ==
  /\ setTime_calls = 2
  /\ time_synced
  /\ Len(shell_cmds) = 1

\* the calls of the platform defaulter that are in flight
DefaulterCalls == {c \in pending : c.stage = "check_engine_config"}

C24_EveryStageCallsBackOnce ==
  \A s \in StageNames :
    /\ cbCount[s] + (IF now.k = "cb" /\ now.stage = s THEN 1 ELSE 0) <= 1
    /\ ( /\ crashed = "no"
         /\ \E i \in DOMAIN started : started[i] = s
         /\ now.stage # s
         /\ \A c \in pending : c.stage # s )
         => cbCount[s] = 1

\* C25 as claimed: when a new secret had to be generated and fs.writeFile
\* fails, generate_auth_key's callback is invoked without an error,
\* auth_secret is the new value of 512 characters, no failure is reported,
\* and the file is still absent or malformed, so that the next boot
\* generates a secret again.
C25_FileStillUnusable ==
  ( /\ now.k = "cb"
    /\ now.stage = "generate_auth_key"
    /\ now.callee = "writeFile(auth_secret)"
    /\ now.reply # NoErr )
    => ( /\ now.err = NoErr
         /\ auth_secret.def
         /\ auth_secret.len = SecretLen
         /\ ~SecretAccepted(NoErr, secret_file) )

\* C25 (amended): when a new secret had to be generated and fs.writeFile fails,
\* generate_auth_key's callback is invoked without an error, auth_secret is
\* the new value of 512 characters, the file is left as it was (absent or
\* malformed if that was why a secret was generated, so that the next boot
\* generates again), no failure is reported, and start_server is the next
\* stage invoked (or, having been invoked already, has taken its cookie
\* secret from the value in memory).
C25_WriteFailureKeepsSecretInMemory ==
  [][ ( /\ now.k = "cb"
        /\ now.stage = "generate_auth_key"
        /\ now.callee = "writeFile(auth_secret)"
        /\ now.reply # NoErr )
        => ( /\ now.err = NoErr
             /\ auth_secret.def
             /\ auth_secret.len = SecretLen
             /\ ~secret_read_failed => ~SecretAccepted(NoErr, secret_file)
             /\ secret_file' = secret_file
             /\ auth_secret' = auth_secret
             /\ IF \E i \in DOMAIN started : started[i] = "start_server"
                  THEN server.cookieSecret = auth_secret
                  ELSE now' = RunToken("start_server")
             /\ final_spent' = final_spent
             /\ crashed' = "no" )
    ]_vars

C25_Witness ==
  /\ now = RunToken("start_server")
  /\ ~secret_read_failed
  /\ secret_file.exists
  /\ secret_file.len = SecretLen - 1
  /\ ncalls["writeFile(auth_secret)"] = 1
  /\ secret_writing = {}
  /\ auth_secret = NewSecret(2)

\* C26: a URL that the not-found handler produced by rewriting the version
\* segment, when it is requested and not matched either, has the persisted
\* version as its first segment: the handler redirects it to "/" and does
\* not rewrite it a second time, whatever the persisted version is.
C26_AtMostOneRewrite ==
  (req.phase = "notfound" /\ req.rewrites >= 1)
    => ElementOne(SplitSlash(req.url)) = engine_cfg.version

\* C27: when profile_shim completes without an error, config.engine's
\* 'profile' is a non-empty value: the configured one if there was one, else
\* the content of the site default file if it has content, else 'Default'.
C27_ProfileNeverEmpty ==
  (now.k = "cb" /\ now.stage = "profile_shim" /\ now.err = NoErr)
    => /\ Truthy(engine_cfg.profile)
       /\ now.callee = "" => ncalls["engine.set(profile)"] = 0

\* Engine.firmware changes only in the callback of get_g2_version's
\* driver.get, on a connected machine and without an error, and then from
\* its initial nulls to build, version and config of the reply at once
FirmwareWrittenOnlyByG2Version ==
  /\ firmware' # firmware
       => /\ InFlight("get_g2_version", "driver.get")
          /\ connected
          /\ firmware = NoFirmware
          /\ firmware' = [build |-> "fb", version |-> "fbs", config |-> "fbc"]
          /\ now' = CbToken("get_g2_version", NoErr, "driver.get", NoErr)
  /\ ( /\ now'.k = "cb"
       /\ now'.stage = "get_g2_version"
       /\ now'.callee = "" \/ now'.reply # NoErr )
       => /\ firmware' = NoFirmware
          /\ now'.err = NoErr

\* C28: Engine.firmware is written only by get_g2_version, only when the
\* machine is connected and driver.get succeeds, all three fields in one
\* step; in every other boot the three fields stay null and the boot still
\* completes: nothing is thrown when no stage reported an error.
C28_FirmwareOnlyFromDriver ==
  [][ /\ FirmwareWrittenOnlyByG2Version
      /\ ( /\ cbCount'["get_g2_version"] >= 1
           /\ firmware' = NoFirmware
           /\ failed_stage' = "none" )
           => crashed' = "no"
    ]_vars

====
